---- MODULE Spec2Model ----
(***************************************************************************)
(* Restore reconciliation of the PerconaServerMongoDBRestore controller:   *)
(* Reconcile (one tick on one restore request), its deferred status        *)
(* finalizer, updateStatus (the bounded retry of the status write), the    *)
(* helpers getStorage and getBackup, the PBM status helpers, and           *)
(* GenerateConfig and CreateOrUpdateConfig of the PBM configuration.       *)
(*                                                                         *)
(* An error value is the sequence of the message parts of err.Error(),     *)
(* outermost wrap first; the nil error is the empty sequence.              *)
(***************************************************************************)
EXTENDS Integers, Sequences, FiniteSets, TLC

VARIABLES
    exists,     \* the restore object is in the object store
    crSpec,     \* cr.Spec of the stored restore object
    restore,    \* cr.Status of the stored restore object
    backup,     \* the PerconaServerMongoDBBackup the request names
    agent,      \* what `pbm status` of the cluster's agent reports
    tick,       \* what the Reconcile call that has just returned did
    wrun,       \* updateStatus alone: the outcome of each attempt the API would give
    wout,       \* updateStatus alone: what the call returned
    call,       \* one helper alone: the function called and its arguments
    back,       \* one helper alone: what the call returned
    secret,     \* the synchronizer alone: the stored <cluster>-pbm-config secret
    sync,       \* the synchronizer alone: what the last two calls were and did
    pair        \* two requests of one cluster: their workers and the agent

vars ==
    <<exists, crSpec, restore, backup, agent, tick, wrun, wout, call, back,
      secret, sync, pair>>

\* the variables of the helper calls and of the synchronizer
sideVars == <<call, back, secret, sync, pair>>

NoCall == [fn |-> "none"]
NoRet == [done |-> FALSE]
NoSecret == [exists |-> FALSE, data |-> <<>>, sum |-> <<>>, applied |-> FALSE]
NoSync == [calls |-> 0]
NoPair == [on |-> FALSE]

SideIdle ==
    /\ call = NoCall /\ back = NoRet /\ secret = NoSecret /\ sync = NoSync
    /\ pair = NoPair

-----------------------------------------------------------------------------
(* Errors *)

Nil == <<>>

\* errors.Wrap / errors.Wrapf / fmt.Errorf("...: %v"): nil stays nil
Wrap(err, msg) == IF err = Nil THEN Nil ELSE <<msg>> \o err

\* strings.Contains(err.Error(), pattern), both as sequences of message parts
Contains(text, pattern) ==
    \E i \in 0..(Len(text) - Len(pattern)) :
        \A j \in 1..Len(pattern) : text[i + j] = pattern[j]

ErrNotFound == <<"not found">>
ErrConflict == <<"the object has been modified">>
ErrAPI == <<"api failure">>
ErrNotUpdated == <<"status not updated">>

\* k8serrors.IsNotFound: decided on the error's own reason, so a wrapped
\* NotFound is not one
IsNotFound(err) == err = ErrNotFound

-----------------------------------------------------------------------------
(* updateStatus *)

Steps == 5

AttemptOutcome == {"ok", "conflict", "notfound", "error", "notupdated"}

\* The closure handed to retry.OnError: Get, Status().Update, Get again, and
\* the comparison of the stored state with the one written.
AttemptErr(o) ==
    CASE o = "ok" -> Nil
      [] o = "notfound" -> ErrNotFound
      [] o = "conflict" -> ErrConflict
      [] o = "notupdated" -> ErrNotUpdated
      [] OTHER -> ErrAPI

\* Status().Update succeeded in this attempt (the re-read may still disagree)
AttemptWrote(o) == o \in {"ok", "notupdated"}

\* the retriable predicate of the call: func(error) bool { return true }
Retriable(err) == TRUE

\* retry.OnError over wait.ExponentialBackoff: run the closure, stop at the
\* first nil or non-retriable error, sleep and repeat while steps are left,
\* and give the last error when they run out.
RECURSIVE OnErrorMutExtra(_, _, _, _)
OnErrorMutExtra(steps, run, i, wrote) ==
    LET o == run[IF i > Len(run) THEN Len(run) ELSE i]
        err == AttemptErr(o)
        w == wrote \/ AttemptWrote(o)
    IN  IF err = Nil \/ ~Retriable(err) \/ steps = 0
        THEN [err |-> err, attempts |-> i, wrote |-> w, last |-> o]
        ELSE OnErrorMutExtra(steps - 1, run, i + 1, w)

RECURSIVE OnError(_, _, _, _)
OnError(steps, run, i, wrote) ==
    LET o == run[i]
        err == AttemptErr(o)
        w == wrote \/ AttemptWrote(o)
    IN  IF err = Nil \/ ~Retriable(err) \/ steps = 1
        THEN [err |-> err, attempts |-> i, wrote |-> w, last |-> o]
        ELSE OnError(steps - 1, run, i + 1, w)

updateStatus(run) ==
    LET r == OnError(Steps, run, 1, FALSE)
    IN  IF IsNotFound(r.err)
        THEN [r EXCEPT !.err = Nil]
        ELSE [r EXCEPT !.err = Wrap(r.err, "write status")]

\* every sequence of attempt outcomes the API can give to one call
WriterRuns == [1..Steps -> AttemptOutcome]

\* what any one call of updateStatus can return, over all such sequences
WriterResults == { updateStatus(run) : run \in WriterRuns }

-----------------------------------------------------------------------------
(* The objects of one tick *)

RestoreStateNew == ""
RestoreStateReady == "ready"
RestoreStateError == "error"

BackupStateNew == ""
BackupStateRequested == "requested"
BackupStateRunning == "running"
BackupStateError == "error"
BackupStateReady == "ready"

LogicalBackup == "logical"
PhysicalBackup == "physical"
IncrementalBackup == "incremental"

RequeueAfter == 5

\* reconcile.Result{RequeueAfter: 5s} and reconcile.Result{}
rr == [requeueAfter |-> RequeueAfter]
NoRequeue == [requeueAfter |-> 0]

ClusterNames == {"", "cluster1"}
BackupNames == {"", "backup1"}
BackupSources == {"nil", "s3", "azure"}
StorageNames == {"", "storage1"}

SpecValues ==
    [clusterName : ClusterNames, backupName : BackupNames,
     backupSource : BackupSources, storageName : StorageNames]

BackupStates ==
    {BackupStateNew, BackupStateRequested, BackupStateRunning,
     BackupStateError, BackupStateReady}

BackupTypes == {"", LogicalBackup, PhysicalBackup, IncrementalBackup}

\* the fields of a backup object the tick reads: a stored backup was taken on
\* the cluster's S3 storage "storage1" and its status carries that storage
BackupValues ==
    [state : BackupStates, type : BackupTypes, storageName : {"storage1"},
     s3 : {TRUE}, azure : {FALSE}]

ErrClusterNameEmpty == <<"spec clusterName field is empty">>
ErrNoBackupRef == <<"one of backupName or backupSource is required">>
ErrBackupInError == <<"backup is in error state">>
ErrBackupNotReady == <<"backup is not ready">>
ErrNoReadyPod == <<"no ready pod">>
ErrExec == <<"command terminated with exit code 1">>
ErrRestoreFailed == <<"restore failed">>

\* cr.CheckFields(): the structural checks of the request
CheckFields(sp) ==
    IF sp.clusterName = "" THEN ErrClusterNameEmpty
    ELSE IF sp.backupName = "" /\ sp.backupSource = "nil" THEN ErrNoBackupRef
    ELSE Nil

\* the tick's inputs: the step that fails if the tick reaches it, what the
\* agent answers to `pbm status`, and how a dispatched restore ends
FailPoints ==
    {"none", "getBackup", "getCluster", "getPod", "push", "clusterUpdate", "restore"}

FetchOutcomes == {"ok", "notconfigured", "execfail"}

RestoreOutcomes == {"done", "failed"}

\* (a tick that fails before the agent's status is read never reads it, so such
\* ticks are listed once)
TickInputs ==
    { in \in [fail : FailPoints, fetch : FetchOutcomes, outcome : RestoreOutcomes] :
        in.fail \notin {"none", "restore"} => in.fetch = "ok" /\ in.outcome = "done" }

StepErr(in, step, err) == IF in.fail = step THEN err ELSE Nil

\* getBackup: a request with no backup name and a backup source gets a
\* synthesized Ready backup; any other request gets the stored object by name
getBackup(sp, bk, in) ==
    IF sp.backupName = "" /\ sp.backupSource # "nil"
    THEN [err |-> Nil,
          bcp |-> [state |-> BackupStateReady, type |-> "",
                   storageName |-> sp.storageName,
                   s3 |-> sp.backupSource = "s3",
                   azure |-> sp.backupSource = "azure"]]
    ELSE [err |-> StepErr(in, "getBackup", ErrNotFound), bcp |-> bk]

-----------------------------------------------------------------------------
(* The agent's status *)

ErrNoDocuments == <<"stdout:", "stderr:", "mongo:", "no documents in result">>
ErrStatusExec == <<"stdout:", "stderr:", "command terminated with exit code 1">>

IsNotConfiguredMutBare(err) == Contains(err, <<"no documents in result">>)

\* IsNotConfigured: strings.Contains(err.Error(), "mongo: no documents in result")
IsNotConfigured(err) == Contains(err, <<"mongo:", "no documents in result">>)

\* GetStatus: `pbm status -o json` run in the agent's container and decoded
GetStatus(ag, in) ==
    CASE in.fetch = "ok" -> [err |-> Nil, running |-> ag.running]
      [] in.fetch = "notconfigured" -> [err |-> ErrNoDocuments, running |-> ""]
      [] OTHER -> [err |-> ErrStatusExec, running |-> ""]

HasRunningOperationMutIdle(st) == [running |-> FALSE, err |-> st.err]

HasRunningOperationMutNever(st) == [running |-> FALSE, err |-> Nil]

HasRunningOperation(st) ==
    IF st.err # Nil
    THEN IF IsNotConfigured(st.err)
         THEN [running |-> FALSE, err |-> Nil]
         ELSE [running |-> FALSE, err |-> st.err]
    ELSE [running |-> st.running # "", err |-> Nil]

-----------------------------------------------------------------------------
(* Reconcile *)

\* no `pbm status` was run
NoFetch == [err |-> Nil, running |-> "none"]

\* nothing was pushed to the agent
NoPush == [call |-> "none", storageName |-> "", type |-> ""]

\* the configuration the gate pushes to the agent: the config file of the
\* backup's named storage when the request has no backup source, else a storage
\* configuration built from the S3 or Azure storage in the backup's status
PushOf(sp, bcp) ==
    IF sp.backupSource = "nil"
    THEN [call |-> "SetConfigFile", storageName |-> bcp.storageName, type |-> ""]
    ELSE [call |-> "SetStorageConfig", storageName |-> "",
          type |-> CASE bcp.s3 -> "s3"
                     [] bcp.azure -> "azure"
                     [] OTHER -> ""]

\* what the body of one tick leaves for the deferred finalizer and the caller:
\* status and err are the locals the finalizer reads, ret and res the returned
\* error and result, steps the calls made, failed the step that failed
Out(status, err, ret, res, steps, failed, bcpState) ==
    [status |-> status, err |-> err, ret |-> ret, res |-> res, steps |-> steps,
     failed |-> failed, bcpState |-> bcpState, fetched |-> NoFetch,
     pushed |-> NoPush]

\* the switch on cr.Status.State that ends the tick of a finished request
IsTerminalMutReadyOnly(state) == state = RestoreStateReady

IsTerminal(state) == state \in {RestoreStateReady, RestoreStateError}

\* meta.FindStatusCondition(status.Conditions, "PBMIsConfigured") == nil
NeedsGateMutNever(status) == FALSE

NeedsGate(status) == ~status.cond

\* the switch on bcp.Status.State
BackupGateMutRunning(state) ==
    CASE state = BackupStateError -> "error"
      [] state \in {BackupStateReady, BackupStateRunning} -> "proceed"
      [] OTHER -> "wait"

BackupGate(state) ==
    CASE state = BackupStateError -> "error"
      [] state = BackupStateReady -> "proceed"
      [] OTHER -> "wait"

\* the function's err after a failure inside the gate block: `pod, err :=`
\* declares a new err there, so only the cluster Get before it sets the
\* function's own err
GateCaptured(step, e) == IF step = "getCluster" THEN e ELSE Nil

\* the execution strategy of a gated request (reconcileLogicalRestore,
\* reconcilePhysicalRestore): ask the agent for a running operation, requeue
\* if there is one, else issue the restore and classify how it ended
reconcileRestore(status, ag, in) ==
    LET got == GetStatus(ag, in)
        has == HasRunningOperation(got)
    IN  IF has.err # Nil
        THEN [status |-> status, err |-> has.err, steps |-> {"fetchStatus"},
              fetched |-> got]
        ELSE IF has.running
        THEN [status |-> status, err |-> Nil, steps |-> {"fetchStatus"},
              fetched |-> got]
        ELSE IF in.fail = "restore"
        THEN [status |-> status, err |-> ErrExec,
              steps |-> {"fetchStatus", "restore"}, fetched |-> got]
        ELSE IF in.outcome = "done"
        THEN [status |-> [status EXCEPT !.state = RestoreStateReady],
              err |-> Nil, steps |-> {"fetchStatus", "restore"}, fetched |-> got]
        ELSE [status |-> [status EXCEPT !.state = RestoreStateError,
                                        !.error = ErrRestoreFailed],
              err |-> Nil, steps |-> {"fetchStatus", "restore"}, fetched |-> got]

GateMutNoCondition(st, sp, bcp, in, done) ==
    [Out(st, Nil, Nil, rr, done \cup {"getCluster", "getPod", "push"}, "", bcp.state)
        EXCEPT !.pushed = PushOf(sp, bcp)]

\* the block under `if FindStatusCondition(...) == nil`
Gate(st, sp, bcp, in, done) ==
    LET eCluster == StepErr(in, "getCluster", ErrNotFound)
        ePod == StepErr(in, "getPod", ErrNoReadyPod)
        ePush == StepErr(in, "push", ErrExec)
        eUpdate == IF bcp.storageName # ""
                   THEN StepErr(in, "clusterUpdate", ErrAPI) ELSE Nil
        sUpdate == IF bcp.storageName # "" THEN {"clusterUpdate"} ELSE {}
        mPush == IF sp.backupSource = "nil"
                 THEN "set pbm config for storage"
                 ELSE "set pbm storage config for backup source"
        push == PushOf(sp, bcp)
    IN  IF eCluster # Nil
        THEN Out(st, GateCaptured("getCluster", eCluster), Wrap(eCluster, "get cluster"),
                 rr, done \cup {"getCluster"}, "getCluster", bcp.state)
        ELSE IF ePod # Nil
        THEN Out(st, GateCaptured("getPod", ePod), Wrap(ePod, "get pod for rs"),
                 rr, done \cup {"getCluster", "getPod"}, "getPod", bcp.state)
        ELSE IF ePush # Nil
        THEN [Out(st, GateCaptured("push", ePush), Wrap(ePush, mPush),
                  rr, done \cup {"getCluster", "getPod", "push"}, "push", bcp.state)
                 EXCEPT !.pushed = push]
        ELSE IF eUpdate # Nil
        THEN [Out(st, GateCaptured("clusterUpdate", eUpdate),
                  Wrap(eUpdate, "update cluster status"),
                  rr, done \cup {"getCluster", "getPod", "push", "clusterUpdate"},
                  "clusterUpdate", bcp.state)
                 EXCEPT !.pushed = push]
        ELSE [Out([st EXCEPT !.cond = TRUE], Nil, Nil, rr,
                  done \cup {"getCluster", "getPod", "push"} \cup sUpdate,
                  "", bcp.state)
                 EXCEPT !.pushed = push]

\* the switch on bcp.Status.Type
Dispatch(st, bcp, ag, in, done) ==
    IF bcp.type \in {"", LogicalBackup, PhysicalBackup}
    THEN LET r == reconcileRestore(st, ag, in)
             kind == IF bcp.type = PhysicalBackup THEN "physical" ELSE "logical"
         IN  [Out(r.status, r.err, Wrap(r.err, "reconcile " \o kind \o " restore"),
                  rr, done \cup r.steps,
                  IF r.err = Nil THEN "" ELSE "restore", bcp.state)
                 EXCEPT !.fetched = r.fetched]
    ELSE Out(st, Nil, Nil, rr, done, "", bcp.state)

\* the default case of the switch on bcp.Status.State: the error is returned
\* and never assigned to err
NotReadyMutCaptured(st, done, bcpState) ==
    Out(st, ErrBackupNotReady, ErrBackupNotReady, NoRequeue, done, "", bcpState)

NotReady(st, done, bcpState) ==
    Out(st, Nil, ErrBackupNotReady, NoRequeue, done, "", bcpState)

\* Reconcile from cr.CheckFields() to its return
Body(st, sp, bk, ag, in) ==
    LET eFields == CheckFields(sp)
        gb == getBackup(sp, bk, in)
        done == {"CheckFields", "getBackup"}
        gate == BackupGate(gb.bcp.state)
    IN  IF eFields # Nil
        THEN Out(st, eFields, Wrap(eFields, "fields check"), NoRequeue,
                 {"CheckFields"}, "CheckFields", "none")
        ELSE IF IsTerminal(st.state)
        THEN Out(st, Nil, Nil, NoRequeue, {"CheckFields"}, "", "none")
        ELSE IF gb.err # Nil
        THEN Out(st, gb.err, Wrap(gb.err, "get backup"), rr, done, "getBackup", "none")
        ELSE IF gate = "error"
        THEN Out(st, ErrBackupInError, Nil, rr, done, "backupState", gb.bcp.state)
        ELSE IF gate = "wait"
        THEN NotReady(st, done, gb.bcp.state)
        ELSE IF NeedsGate(st)
        THEN Gate(st, sp, gb.bcp, in, done)
        ELSE Dispatch(st, gb.bcp, ag, in, done)

FinalizeMutNoText(status, err) ==
    IF err # Nil
    THEN [status EXCEPT !.state = RestoreStateError]
    ELSE status

\* the deferred function: a non-nil err makes the status an Error status
Finalize(status, err) ==
    IF err # Nil
    THEN [status EXCEPT !.state = RestoreStateError, !.error = err]
    ELSE status

\* the comparison that decides whether the deferred function writes
StatusChangedMutNoConditions(old, new) ==
    old.state # new.state \/ old.error # new.error

StatusChanged(old, new) ==
    old.state # new.state \/ old.error # new.error \/ old.cond # new.cond

-----------------------------------------------------------------------------
(* The reconciliation loop of one restore request *)

StatusNew == [state |-> RestoreStateNew, error |-> Nil, cond |-> FALSE]

NoWrite == [err |-> Nil, attempts |-> 0, wrote |-> FALSE, last |-> "none"]

\* what a call of updateStatus leaves behind: its error, whether some attempt's
\* update reached the store, whether the object was gone at the last attempt
WriteEffect(w) == [err |-> w.err, wrote |-> w.wrote, gone |-> w.last = "notfound"]

WriteEffects == { WriteEffect(w) : w \in WriterResults }

NoEffect == [err |-> Nil, wrote |-> FALSE, gone |-> FALSE]

NoTick ==
    [found |-> FALSE, pre |-> StatusNew, status |-> StatusNew, err |-> Nil,
     ret |-> Nil, res |-> NoRequeue, steps |-> {}, failed |-> "",
     bcpState |-> "none", fetched |-> NoFetch, pushed |-> NoPush, writes |-> 0,
     w |-> NoEffect, ran |-> FALSE]

\* the record of a tick whose body ran
TickOf(o, pre, final, writes, w) ==
    [found |-> TRUE, pre |-> pre, status |-> final, err |-> o.err, ret |-> o.ret,
     res |-> o.res, steps |-> o.steps, failed |-> o.failed,
     bcpState |-> o.bcpState, fetched |-> o.fetched, pushed |-> o.pushed,
     writes |-> writes, w |-> w, ran |-> TRUE]

\* the record of a tick that returned before the deferred function was set
EarlyTick(ret) ==
    [NoTick EXCEPT !.ret = ret, !.res = rr, !.ran = TRUE]

Init ==
    /\ exists = TRUE
    /\ crSpec \in SpecValues
    /\ restore = StatusNew
    /\ backup \in BackupValues
    /\ agent = [running |-> ""]
    /\ tick = NoTick
    /\ wrun = <<>>
    /\ wout = NoWrite
    /\ SideIdle

\* Reconcile, when the Get of the request fails: not found, or another error
ReconcileNoObject ==
    /\ \/ /\ ~exists
          /\ tick' = EarlyTick(Nil)
       \/ /\ exists
          /\ tick' = EarlyTick(ErrAPI)
    /\ UNCHANGED <<exists, crSpec, restore, backup, agent, wrun, wout, call, back, secret, sync, pair>>

\* Reconcile on a request that is read: the body, then the deferred function;
\* inputs are what the tick's calls can meet, effects what its status write
\* can do
ReconcileWith(inputs, effects) ==
    /\ exists
    /\ \E in \in inputs :
        LET o == Body(restore, crSpec, backup, agent, in)
            final == Finalize(o.status, o.err)
        IN  IF StatusChanged(restore, final)
            THEN \E w \in effects :
                    /\ restore' = IF w.wrote THEN final ELSE restore
                    /\ exists' = ~w.gone
                    /\ tick' = TickOf(o, restore, final, 1, w)
            ELSE /\ tick' = TickOf(o, restore, final, 0, NoEffect)
                 /\ UNCHANGED <<restore, exists>>
    /\ UNCHANGED <<crSpec, backup, agent, wrun, wout, call, back, secret, sync, pair>>

Reconcile == ReconcileWith(TickInputs, WriteEffects)

\* the user edits the request's spec
EditSpec ==
    /\ exists
    /\ \E sp \in SpecValues : crSpec' = sp
    /\ crSpec' # crSpec
    /\ tick' = NoTick
    /\ UNCHANGED <<exists, restore, backup, agent, wrun, wout, call, back, secret, sync, pair>>

\* the user deletes the request
DeleteRequest ==
    /\ exists
    /\ exists' = FALSE
    /\ tick' = NoTick
    /\ UNCHANGED <<crSpec, restore, backup, agent, wrun, wout, call, back, secret, sync, pair>>

\* the backup controller moves the backup on
BackupChange ==
    /\ \E s \in BackupStates : backup' = [backup EXCEPT !.state = s]
    /\ backup' # backup
    /\ tick' = NoTick
    /\ UNCHANGED <<exists, crSpec, restore, agent, wrun, wout, call, back, secret, sync, pair>>

\* another operation of the cluster's agent starts or ends
AgentChange ==
    /\ agent' = [running |-> IF agent.running = "" THEN "running" ELSE ""]
    /\ tick' = NoTick
    /\ UNCHANGED <<exists, crSpec, restore, backup, wrun, wout, call, back, secret, sync, pair>>

Next ==
    \/ ReconcileNoObject
    \/ Reconcile
    \/ EditSpec
    \/ DeleteRequest
    \/ BackupChange
    \/ AgentChange

Spec == Init /\ [][Next]_vars

-----------------------------------------------------------------------------
(* The ticks of one request that nobody edits or deletes, whose backup and  *)
(* cluster are found and whose backup stays as it is; the work queue keeps  *)
(* running ticks, and ticks in which every call and the status write        *)
(* succeed keep coming.                                                     *)

\* the pod lookup, the push, the cluster status update or the restore command
\* may fail
LiveInputs ==
    { in \in TickInputs :
        in.fail \in {"none", "getPod", "push", "clusterUpdate", "restore"} }

\* the status write succeeds or fails, the object is not deleted
LiveEffects == { w \in WriteEffects : ~w.gone }

GoodInputs == { in \in TickInputs : in.fail = "none" /\ in.fetch = "ok" }

GoodEffects == { w \in WriteEffects : w.err = Nil /\ w.wrote /\ ~w.gone }

InitLive ==
    /\ exists = TRUE
    /\ crSpec = [clusterName |-> "cluster1", backupName |-> "backup1",
                 backupSource |-> "nil", storageName |-> ""]
    /\ restore = StatusNew
    /\ backup \in BackupValues
    /\ agent = [running |-> ""]
    /\ tick = NoTick
    /\ wrun = <<>>
    /\ wout = NoWrite
    /\ SideIdle

LiveReconcile == ReconcileWith(LiveInputs, LiveEffects)

GoodReconcile == ReconcileWith(GoodInputs, GoodEffects)

NextLive == LiveReconcile

SpecLive == InitLive /\ [][NextLive]_vars /\ WF_vars(GoodReconcile)

-----------------------------------------------------------------------------
(* updateStatus alone, on every sequence of attempt outcomes *)

InitWriter ==
    /\ exists = TRUE
    /\ crSpec = [clusterName |-> "cluster1", backupName |-> "backup1",
                 backupSource |-> "nil", storageName |-> ""]
    /\ restore = StatusNew
    /\ backup = [state |-> BackupStateReady, type |-> LogicalBackup,
                 storageName |-> "storage1", s3 |-> TRUE, azure |-> FALSE]
    /\ agent = [running |-> ""]
    /\ tick = NoTick
    /\ wrun \in WriterRuns
    /\ wout = NoWrite
    /\ SideIdle

UpdateStatusCall ==
    /\ wout = NoWrite
    /\ wout' = updateStatus(wrun)
    /\ UNCHANGED <<exists, crSpec, restore, backup, agent, tick, wrun, call, back, secret, sync, pair>>

NextWriter == UpdateStatusCall

SpecWriter == InitWriter /\ [][NextWriter]_vars

-----------------------------------------------------------------------------
(* The helpers, each called alone on every input *)

StorageS3 == "s3"
StorageAzure == "azure"
StorageFilesystem == "filesystem"

\* the zero psmdbv1.BackupStorageSpec: no type, no variant filled in
EmptyStorage == [type |-> "", s3 |-> FALSE, azure |-> FALSE, filesystem |-> FALSE]

\* cr.Spec.BackupSource: nil, or a descriptor with each variant set or nil
SourceValues ==
    { src \in [present : BOOLEAN, s3 : BOOLEAN, azure : BOOLEAN,
               filesystem : BOOLEAN] :
        ~src.present => ~src.s3 /\ ~src.azure /\ ~src.filesystem }

\* the number of variants a backup source populates
Populated(src) ==
    (IF src.s3 THEN 1 ELSE 0) + (IF src.azure THEN 1 ELSE 0)
        + (IF src.filesystem THEN 1 ELSE 0)

\* cluster.Spec.Backup.Storages: no storage, or the S3 storage "storage1"
ClusterStorages ==
    {<<>>, [n \in {"storage1"} |-> [EmptyStorage EXCEPT !.type = StorageS3, !.s3 = TRUE]]}

StorageArgs == {"", "storage1", "storage2"}

ErrUnableToGetStorage(name) == <<"unable to get storage", name>>

\* getStorage: the cluster's storage of that name when a name is given; else
\* a storage of type S3 by default, Azure when the source has an Azure
\* descriptor, with the S3 descriptor copied only when there is no Azure one
getStorage(src, storages, storageName) ==
    IF storageName # ""
    THEN IF storageName \in DOMAIN storages
         THEN [panic |-> FALSE, err |-> Nil, stg |-> storages[storageName]]
         ELSE [panic |-> FALSE, err |-> ErrUnableToGetStorage(storageName),
               stg |-> EmptyStorage]
    ELSE IF ~src.present
    THEN [panic |-> TRUE, err |-> Nil, stg |-> EmptyStorage]
    ELSE [panic |-> FALSE, err |-> Nil,
          stg |-> [type |-> IF src.azure THEN StorageAzure ELSE StorageS3,
                   s3 |-> ~src.azure /\ src.s3,
                   azure |-> src.azure,
                   filesystem |-> FALSE]]

MainIdle ==
    /\ exists = TRUE
    /\ crSpec = [clusterName |-> "cluster1", backupName |-> "backup1",
                 backupSource |-> "nil", storageName |-> ""]
    /\ restore = StatusNew
    /\ backup = [state |-> BackupStateReady, type |-> LogicalBackup,
                 storageName |-> "storage1", s3 |-> TRUE, azure |-> FALSE]
    /\ agent = [running |-> ""]
    /\ tick = NoTick
    /\ wrun = <<>>
    /\ wout = NoWrite

mainVars == <<exists, crSpec, restore, backup, agent, tick, wrun, wout>>

InitCalls == MainIdle /\ SideIdle

Returned(val) == [done |-> TRUE, val |-> val]

CallGetStorage ==
    /\ \E src \in SourceValues, storages \in ClusterStorages, name \in StorageArgs :
          /\ call' = [fn |-> "getStorage", source |-> src, storages |-> storages,
                      storageName |-> name]
          /\ back' = Returned(getStorage(src, storages, name))
    /\ UNCHANGED <<mainVars, secret, sync, pair>>

\* the cluster's cr.Spec.Backup.PITR, by its Enabled flag
ClusterSpecs == [pitr : BOOLEAN]

\* a storage type no backend has
StorageUnknown == "gcs"

\* a psmdbv1.BackupStorageSpec: its Type and whether each block is filled in
StorageSpecs ==
    [type : {"", StorageS3, StorageAzure, StorageFilesystem, StorageUnknown},
     s3 : BOOLEAN, azure : BOOLEAN, filesystem : BOOLEAN]

\* what GetS3Crendentials / GetAzureCrendentials return: an error or the keys
CredOutcomes ==
    {[err |-> ErrNotFound, key |-> ""], [err |-> Nil, key |-> "key1"],
     [err |-> Nil, key |-> "key2"]}

\* the zero config.StorageConf
EmptyStorageConf ==
    [type |-> "", s3 |-> [set |-> FALSE, spec |-> FALSE, key |-> ""],
     azure |-> [set |-> FALSE, spec |-> FALSE, key |-> ""]]

StorageConfMutDefaultS3(stg, creds) ==
    CASE stg.type = StorageAzure ->
           [EmptyStorageConf EXCEPT
              !.type = StorageAzure,
              !.azure = [set |-> TRUE, spec |-> stg.azure, key |-> creds.key]]
      [] OTHER ->
           [EmptyStorageConf EXCEPT
              !.type = StorageS3,
              !.s3 = [set |-> TRUE, spec |-> stg.s3, key |-> creds.key]]

\* the storage block GenerateConfig renders once the credentials are read: the
\* switch on stg.Type has a case for S3 and one for Azure and no other
StorageConf(stg, creds) ==
    CASE stg.type = StorageS3 ->
           [EmptyStorageConf EXCEPT
              !.type = StorageS3,
              !.s3 = [set |-> TRUE, spec |-> stg.s3, key |-> creds.key]]
      [] stg.type = StorageAzure ->
           [EmptyStorageConf EXCEPT
              !.type = StorageAzure,
              !.azure = [set |-> TRUE, spec |-> stg.azure, key |-> creds.key]]
      [] OTHER -> EmptyStorageConf

\* GenerateConfig: the PITR block from the cluster, the storage block from stg;
\* the credentials are read only for an S3 or an Azure storage
GenerateConfig(cl, stg, creds) ==
    LET cnf == [pitr |-> cl.pitr, storage |-> EmptyStorageConf]
    IN  CASE stg.type = StorageS3 /\ creds.err # Nil ->
               [cnf |-> cnf, err |-> Wrap(creds.err, "get S3 credentials")]
          [] stg.type = StorageAzure /\ creds.err # Nil ->
               [cnf |-> cnf, err |-> Wrap(creds.err, "get Azure credentials")]
          [] OTHER ->
               [cnf |-> [cnf EXCEPT !.storage = StorageConf(stg, creds)],
                err |-> Nil]

CallGenerateConfig ==
    /\ \E cl \in ClusterSpecs, stg \in StorageSpecs, creds \in CredOutcomes :
          /\ call' = [fn |-> "GenerateConfig", cluster |-> cl, stg |-> stg,
                      creds |-> creds]
          /\ back' = Returned(GenerateConfig(cl, stg, creds))
    /\ UNCHANGED <<mainVars, secret, sync, pair>>

\* an exec failure whose output has the words "no documents in result" without
\* the driver's "mongo: " before them, and a failure of json.Unmarshal
ErrNoDocumentsBare == <<"stdout:", "stderr:", "no documents in result">>
ErrDecode == <<"unexpected end of JSON input">>

StatusErrs == {ErrNoDocuments, ErrNoDocumentsBare, ErrStatusExec, ErrDecode}

\* the zero Status, which GetStatus returns beside an error
ZeroStatus(err) ==
    [err |-> err, running |-> "", pitrConf |-> FALSE, pitrRun |-> FALSE,
     chunks |-> <<>>]

MaxChunks == 2

\* Range.End of a chunk, in epoch seconds: the first second, the last second
\* of the first day, both ends of a leap day, 2023-11-14T22:13:20, the first
\* day after a February of a leap year
Epochs == {0, 86399, 951782400, 951868799, 1700000000, 68256000}

ChunkLists == UNION { [1..n -> Epochs] : n \in 0..MaxChunks }

\* what GetStatus can return: an error with the zero Status, or a Status
StatusReplies ==
    { ZeroStatus(e) : e \in StatusErrs }
    \cup [err : {Nil}, running : {"", "running"}, pitrConf : BOOLEAN,
          pitrRun : BOOLEAN, chunks : {<<>>}]
    \cup [err : {Nil}, running : {""}, pitrConf : {TRUE}, pitrRun : {TRUE},
          chunks : ChunkLists]

\* GetRunningOperation: status.Running, or the error of GetStatus as it is
GetRunningOperation(st) ==
    IF st.err # Nil
    THEN [running |-> "", err |-> st.err]
    ELSE [running |-> st.running, err |-> Nil]

\* IsPITRRunning: status.PITR.Run || status.PITR.Conf, or the error of
\* GetStatus as it is
IsPITRRunning(st) ==
    IF st.err # Nil
    THEN [running |-> FALSE, err |-> st.err]
    ELSE [running |-> st.pitrRun \/ st.pitrConf, err |-> Nil]

\* time.Unix(sec, 0).UTC(): the civil date and time of an epoch second
Civil(sec) ==
    LET days == sec \div 86400
        rem == sec % 86400
        z == days + 719468
        era == z \div 146097
        doe == z - era * 146097
        yoe == (doe - doe \div 1460 + doe \div 36524 - doe \div 146096) \div 365
        doy == doe - (365 * yoe + yoe \div 4 - yoe \div 100)
        mp == (5 * doy + 2) \div 153
        m == IF mp < 10 THEN mp + 3 ELSE mp - 9
    IN  [year |-> yoe + era * 400 + (IF m <= 2 THEN 1 ELSE 0),
         month |-> m,
         day |-> doy - (153 * mp + 2) \div 5 + 1,
         hour |-> rem \div 3600,
         minute |-> (rem % 3600) \div 60,
         second |-> rem % 60]

Digit(d) == <<"0", "1", "2", "3", "4", "5", "6", "7", "8", "9">>[d + 1]

Pad2(n) == Digit((n \div 10) % 10) \o Digit(n % 10)

Pad4(n) == Pad2(n \div 100) \o Pad2(n % 100)

\* ts.Format("2006-01-02T15:04:05")
Format(t) ==
    Pad4(t.year) \o "-" \o Pad2(t.month) \o "-" \o Pad2(t.day) \o "T"
        \o Pad2(t.hour) \o ":" \o Pad2(t.minute) \o ":" \o Pad2(t.second)

LatestEndMutFirst(chunks) == chunks[1]

\* Chunks[len(Chunks)-1].Range.End
LatestEnd(chunks) == chunks[Len(chunks)]

\* LatestPITRChunk: the error of GetStatus as it is; a panic (index out of
\* range) on an empty chunk list; else the formatted end of the last chunk
LatestPITRChunk(st) ==
    IF st.err # Nil
    THEN [panic |-> FALSE, text |-> "", err |-> st.err]
    ELSE IF st.chunks = <<>>
    THEN [panic |-> TRUE, text |-> "", err |-> Nil]
    ELSE [panic |-> FALSE, text |-> Format(Civil(LatestEnd(st.chunks))),
          err |-> Nil]

CallHasRunningOperation ==
    /\ \E st \in StatusReplies :
          /\ call' = [fn |-> "HasRunningOperation", st |-> st]
          /\ back' = Returned(HasRunningOperation(st))
    /\ UNCHANGED <<mainVars, secret, sync, pair>>

CallGetRunningOperation ==
    /\ \E st \in StatusReplies :
          /\ call' = [fn |-> "GetRunningOperation", st |-> st]
          /\ back' = Returned(GetRunningOperation(st))
    /\ UNCHANGED <<mainVars, secret, sync, pair>>

CallIsPITRRunning ==
    /\ \E st \in StatusReplies :
          /\ call' = [fn |-> "IsPITRRunning", st |-> st]
          /\ back' = Returned(IsPITRRunning(st))
    /\ UNCHANGED <<mainVars, secret, sync, pair>>

CallLatestPITRChunk ==
    /\ \E st \in StatusReplies :
          /\ call' = [fn |-> "LatestPITRChunk", st |-> st]
          /\ back' = Returned(LatestPITRChunk(st))
    /\ UNCHANGED <<mainVars, secret, sync, pair>>

NextCalls ==
    \/ CallGetStorage
    \/ CallGenerateConfig
    \/ CallHasRunningOperation
    \/ CallGetRunningOperation
    \/ CallIsPITRRunning
    \/ CallLatestPITRChunk

SpecCalls == InitCalls /\ [][NextCalls]_vars

-----------------------------------------------------------------------------
(* CreateOrUpdateConfig and the secret <cluster>-pbm-config *)

BoolText(b) == IF b THEN "true" ELSE "false"

\* yaml.Marshal(cnf): the fields of the configuration in their declared order
Marshal(cnf) ==
    <<"pitr:", "enabled:", BoolText(cnf.pitr), "storage:", "type:", cnf.storage.type>>
    \o (IF cnf.storage.s3.set
        THEN <<"s3:", BoolText(cnf.storage.s3.spec), cnf.storage.s3.key>> ELSE <<>>)
    \o (IF cnf.storage.azure.set
        THEN <<"azure:", BoolText(cnf.storage.azure.spec), cnf.storage.azure.key>>
        ELSE <<>>)

\* fmt.Sprintf("%x", sha256.Sum256(bytes)): equal bytes, equal sums (no two
\* configurations of the model collide)
Sha256(bytes) == <<"sha256">> \o bytes

\* what the API answers to the calls on the secret: every call works, the Get
\* fails with an error other than NotFound, or the Create / Update fails
ApiOutcomes == {"ok", "getfail", "writefail"}

\* the storages the synchronizer is called with: the cluster's S3, Azure and
\* filesystem storages
SyncStorages ==
    {[EmptyStorage EXCEPT !.type = StorageS3, !.s3 = TRUE],
     [EmptyStorage EXCEPT !.type = StorageAzure, !.azure = TRUE],
     [EmptyStorage EXCEPT !.type = StorageFilesystem, !.filesystem = TRUE]}

SyncArgs == [cluster : ClusterSpecs, stg : SyncStorages, creds : CredOutcomes]

UpToDateMutNever(sec, bytes) == FALSE

\* reflect.DeepEqual(secret.Data["config.yaml"], cnfBytes)
UpToDate(sec, bytes) == sec.data = bytes

\* the secret the NotFound branch creates
CreatedSecret(bytes) ==
    [exists |-> TRUE, data |-> bytes, sum |-> Sha256(bytes), applied |-> FALSE]

UpdatedSecretMutStaleSum(sec, bytes) ==
    [sec EXCEPT !.data = bytes, !.applied = FALSE]

UpdatedSecretMutKeepApplied(sec, bytes) ==
    [sec EXCEPT !.data = bytes, !.sum = Sha256(bytes)]

\* the secret the update branch sends: config-applied deleted, config-sum and
\* the data replaced
UpdatedSecret(sec, bytes) ==
    [sec EXCEPT !.data = bytes, !.sum = Sha256(bytes), !.applied = FALSE]

\* CreateOrUpdateConfig: its error, the write it attempted on the secret and
\* the secret stored when it returns
CreateOrUpdateConfig(sec, a, api) ==
    LET g == GenerateConfig(a.cluster, a.stg, a.creds)
        bytes == Marshal(g.cnf)
        wErr == IF api = "writefail" THEN ErrAPI ELSE Nil
    IN  IF g.err # Nil
        THEN [err |-> Wrap(g.err, "get config"), op |-> "none", secret |-> sec]
        ELSE IF api = "getfail"
        THEN [err |-> Wrap(ErrAPI, "get secret"), op |-> "none", secret |-> sec]
        ELSE IF ~sec.exists
        THEN [err |-> Wrap(wErr, "create secret"), op |-> "create",
              secret |-> IF wErr = Nil THEN CreatedSecret(bytes) ELSE sec]
        ELSE IF UpToDate(sec, bytes)
        THEN [err |-> Nil, op |-> "none", secret |-> sec]
        ELSE [err |-> Wrap(wErr, "update secret"), op |-> "update",
              secret |-> IF wErr = Nil THEN UpdatedSecret(sec, bytes) ELSE sec]

InitConfig == MainIdle /\ SideIdle

\* one call; prev tells whether the call before it was made on the same stored
\* secret (nothing else touched it in between), with what and how it ended
SyncCall ==
    /\ \E a \in SyncArgs, api \in ApiOutcomes :
          LET r == CreateOrUpdateConfig(secret, a, api)
              row == sync.calls > 0 /\ sync.fresh
          IN  /\ secret' = r.secret
              /\ sync' = [calls |-> 1, fresh |-> TRUE, args |-> a, api |-> api,
                          pre |-> secret, op |-> r.op, err |-> r.err,
                          prev |-> [row |-> row,
                                    args |-> IF row THEN sync.args ELSE a,
                                    ok |-> row /\ sync.err = Nil]]
    /\ UNCHANGED <<mainVars, call, back, pair>>

\* the cluster controller marks the stored configuration as applied
MarkApplied ==
    /\ secret.exists /\ ~secret.applied
    /\ secret' = [secret EXCEPT !.applied = TRUE]
    /\ sync' = IF sync.calls > 0 THEN [sync EXCEPT !.fresh = FALSE] ELSE sync
    /\ UNCHANGED <<mainVars, call, back, pair>>

\* someone deletes the secret
DeleteSecret ==
    /\ secret.exists
    /\ secret' = NoSecret
    /\ sync' = IF sync.calls > 0 THEN [sync EXCEPT !.fresh = FALSE] ELSE sync
    /\ UNCHANGED <<mainVars, call, back, pair>>

NextConfig ==
    \/ SyncCall
    \/ MarkApplied
    \/ DeleteSecret

SpecConfig == InitConfig /\ [][NextConfig]_vars

-----------------------------------------------------------------------------
(* Two restore requests of one cluster, reconciled by two workers: each     *)
(* call made by a tick is a step of its own, so the ticks of the two        *)
(* requests interleave; the ticks of one request never overlap.             *)

Requests == {"restore1", "restore2"}

Other(r) == CHOOSE q \in Requests : q # r

\* both requests name a stored, Ready, logical backup of cluster1, the first
\* on storage1 and the second on storage2
PairSpec(r) ==
    [clusterName |-> "cluster1",
     backupName |-> IF r = "restore1" THEN "backup1" ELSE "backup2",
     backupSource |-> "nil", storageName |-> ""]

PairBackup(r) ==
    [state |-> BackupStateReady, type |-> LogicalBackup,
     storageName |-> IF r = "restore1" THEN "storage1" ELSE "storage2",
     s3 |-> TRUE, azure |-> FALSE]

\* the state of a request whose restore was issued and has not ended yet
RestoreStateRunning == "running"

\* what is known of the last gate pass and of the dispatch of a request
NoGate == [set |-> FALSE, pushOk |-> FALSE, converged |-> FALSE]
NoDispatch == [done |-> FALSE, config |-> NoPush, overlap |-> FALSE, raced |-> FALSE]

InitPair ==
    /\ MainIdle
    /\ call = NoCall /\ back = NoRet /\ secret = NoSecret /\ sync = NoSync
    /\ pair = [on |-> TRUE,
               req |-> [r \in Requests |->
                          [stored |-> StatusNew, local |-> StatusNew, pc |-> "idle",
                           gate |-> NoGate, disp |-> NoDispatch]],
               agent |-> [config |-> NoPush, applied |-> NoPush, active |-> {}]]

pairRest == <<mainVars, call, back, secret, sync>>

\* a tick starts: the request is read, passes the field check, is not
\* finished, its backup is Ready; the tick goes to the gate or to the switch
\* on the backup type
PairStart(r) ==
    LET q == pair.req[r]
    IN  /\ q.pc = "idle"
        /\ ~IsTerminal(q.stored.state)
        /\ BackupGate(PairBackup(r).state) = "proceed"
        /\ pair' = [pair EXCEPT !.req[r].local = q.stored,
                                !.req[r].pc = IF NeedsGate(q.stored)
                                              THEN "push" ELSE "check"]
        /\ UNCHANGED pairRest

\* the gate: the push to the agent succeeds or fails; after a push that
\* succeeded the condition is set in the tick's status, whatever configuration
\* the agent has applied by then; a failed push leaves the status as it was
PairPush(r) ==
    LET q == pair.req[r]
        want == PushOf(PairSpec(r), PairBackup(r))
    IN  /\ q.pc = "push"
        /\ \E ok \in BOOLEAN :
              pair' = IF ok
                      THEN [pair EXCEPT
                              !.agent.config = want,
                              !.req[r].local.cond = TRUE,
                              !.req[r].gate =
                                  [set |-> TRUE, pushOk |-> TRUE,
                                   converged |-> pair.agent.applied = want],
                              !.req[r].pc = "write"]
                      ELSE [pair EXCEPT !.req[r].pc = "write"]
        /\ UNCHANGED pairRest

\* the strategy asks the agent for a running operation: a request whose own
\* restore has ended becomes Ready, one that sees an operation running
\* requeues, one that sees none goes on to issue its restore
PairCheck(r) ==
    LET q == pair.req[r]
        st == [err |-> Nil,
               running |-> IF pair.agent.active = {} THEN "" ELSE "running"]
        has == HasRunningOperation(st)
    IN  /\ q.pc = "check"
        /\ pair' =
              IF q.stored.state = RestoreStateRunning /\ r \notin pair.agent.active
              THEN [pair EXCEPT !.req[r].local.state = RestoreStateReady,
                                !.req[r].pc = "write"]
              ELSE IF has.running \/ q.stored.state = RestoreStateRunning
              THEN [pair EXCEPT !.req[r].pc = "write"]
              ELSE [pair EXCEPT !.req[r].pc = "restore"]
        /\ UNCHANGED pairRest

\* the strategy issues the restore: the agent starts the operation with the
\* configuration it holds then
PairRestore(r) ==
    LET q == pair.req[r]
        o == Other(r)
    IN  /\ q.pc = "restore"
        /\ pair' = [pair EXCEPT
                      !.agent.active = @ \cup {r},
                      !.req[r].local.state = RestoreStateRunning,
                      !.req[r].disp =
                          [done |-> TRUE, config |-> pair.agent.config,
                           overlap |-> pair.agent.active # {}, raced |-> q.disp.raced],
                      !.req[r].pc = "write",
                      !.req[o].disp.raced = @ \/ pair.req[o].pc = "restore"]
        /\ UNCHANGED pairRest

\* the deferred function writes the tick's status when it differs
PairWrite(r) ==
    LET q == pair.req[r]
    IN  /\ q.pc = "write"
        /\ pair' = [pair EXCEPT
                      !.req[r].stored = IF StatusChanged(q.stored, q.local)
                                        THEN q.local ELSE q.stored,
                      !.req[r].pc = "idle"]
        /\ UNCHANGED pairRest

\* the agent applies the configuration last pushed to it
AgentApply ==
    /\ pair.agent.applied # pair.agent.config
    /\ pair' = [pair EXCEPT !.agent.applied = pair.agent.config]
    /\ UNCHANGED pairRest

\* the agent ends an operation
AgentFinish ==
    /\ \E r \in pair.agent.active :
          pair' = [pair EXCEPT !.agent.active = @ \ {r}]
    /\ UNCHANGED pairRest

NextPair ==
    \/ \E r \in Requests : PairStart(r)
    \/ \E r \in Requests : PairPush(r)
    \/ \E r \in Requests : PairCheck(r)
    \/ \E r \in Requests : PairRestore(r)
    \/ \E r \in Requests : PairWrite(r)
    \/ AgentApply
    \/ AgentFinish

SpecPair == InitPair /\ [][NextPair]_vars

-----------------------------------------------------------------------------
(* Properties *)

\* a tick of a request that was read, just returned
Ticked == tick.ran /\ tick.found

AgentSteps == {"push", "fetchStatus", "restore"}

\* C1: once the stored state of a request is Ready or Error, a later tick does
\* not change it, whatever field validation or the backup lookup give on that
\* tick.
C1_TerminalStateKept ==
    (Ticked /\ exists /\ IsTerminal(tick.pre.state))
        => restore.state = tick.pre.state

C3_GateBeforeDispatch ==
    (Ticked /\ ~tick.pre.cond)
        => /\ tick.steps \cap {"fetchStatus", "restore"} = {}
           /\ tick.status.cond => (tick.res = rr /\ tick.ret = Nil)

C3_Witness ==
    /\ Ticked /\ ~tick.pre.cond /\ tick.status.cond
    /\ "push" \in tick.steps /\ restore.cond

\* C4: the configuration push, the cluster status update and the restore
\* strategy are reached only on a tick whose resolved backup is Ready; with a
\* backup in New, Requested or Running state the tick runs no agent command
\* and writes neither the cluster's nor the request's status.
C4_BackupReadyBeforeRestore ==
    Ticked
        => /\ (tick.steps \cap (AgentSteps \cup {"clusterUpdate"}) # {})
                => tick.bcpState = BackupStateReady
           /\ tick.bcpState \in {BackupStateNew, BackupStateRequested, BackupStateRunning}
                => /\ tick.steps \cap (AgentSteps \cup {"clusterUpdate"}) = {}
                   /\ tick.writes = 0

C4_Witness ==
    /\ Ticked /\ tick.bcpState = BackupStateRunning
    /\ tick.steps = {"CheckFields", "getBackup"}

\* C5: when a step of a tick on an unfinished request fails, the request's
\* stored status at the end of the tick is Error with the failure text (stated
\* here for the ticks whose status write, if any, succeeded).
C5_StepFailureIsError ==
    (Ticked /\ exists /\ ~IsTerminal(tick.pre.state) /\ tick.failed # ""
        /\ tick.w.err = Nil)
        => restore.state = RestoreStateError /\ restore.error # Nil

\* C6: on a tick whose resolved backup is neither Ready nor Error the status
\* (state, error text, conditions) is left as it was, no status write is made
\* and no further step runs; the tick returns "backup is not ready", on which
\* the controller requeues.
C6_NotReadyOnlyRequeues ==
    (Ticked /\ tick.bcpState \notin {"none", BackupStateReady, BackupStateError})
        => /\ tick.status = tick.pre
           /\ restore = tick.pre
           /\ tick.writes = 0
           /\ tick.steps = {"CheckFields", "getBackup"}
           /\ tick.ret = ErrBackupNotReady

C6_Witness ==
    /\ Ticked /\ tick.bcpState = BackupStateRequested
    /\ tick.ret = ErrBackupNotReady /\ tick.writes = 0

ConflictsThenOk(run, k) ==
    (\A i \in 1..k : run[i] = "conflict") /\ run[k + 1] = "ok"

\* C8: updateStatus makes at most Steps attempts; k < Steps conflicts followed
\* by a success give success after exactly k + 1 attempts; Steps conflicts give
\* a write error after exactly Steps attempts.
C8_ConflictRecovery ==
    wout # NoWrite
        => /\ wout.attempts \in 1..Steps
           /\ \A k \in 0..(Steps - 1) :
                ConflictsThenOk(wrun, k) => (wout.err = Nil /\ wout.attempts = k + 1)
           /\ (\A i \in 1..Steps : wrun[i] = "conflict")
                => (wout.err = <<"write status">> \o ErrConflict /\ wout.attempts = Steps)

C8_Witness ==
    /\ ConflictsThenOk(wrun, 2)
    /\ wout.attempts = 3 /\ wout.err = Nil

\* C9: whenever some attempt of updateStatus finds the object gone, whichever
\* attempt it is, updateStatus returns success.
C9_NotFoundIsSuccess ==
    (wout # NoWrite /\ \E i \in 1..wout.attempts : wrun[i] = "notfound")
        => wout.err = Nil

\* C10 as stated: every tick of an existing request calls updateStatus exactly
\* once (stated here for the ticks on which no step fails and no error is
\* returned).
C10_ExactlyOnePersist ==
    (Ticked /\ tick.failed = "" /\ tick.ret = Nil) => tick.writes = 1

\* C10 amended: a tick of an existing request calls updateStatus at most once:
\* once when the finalized status differs from the status read in state, error
\* text or conditions, and not at all when it does not.
C10_AtMostOnePersist ==
    Ticked
        => /\ tick.writes \in {0, 1}
           /\ tick.writes = 1 <=> tick.status # tick.pre

C10_Witness ==
    /\ Ticked /\ exists /\ tick.writes = 0
    /\ tick.pre.state = RestoreStateReady /\ tick.res = NoRequeue

\* C11 (as stated): in a tick of a request that carries both a backup name and
\* a backup source, getBackup returns the stored backup whatever the source is,
\* and the gate pushes what it pushes for the same request without the source
C11_SourceIgnoredWithName ==
    (Ticked /\ crSpec.backupName # "" /\ crSpec.backupSource # "nil"
        /\ "push" \in tick.steps)
    => /\ \A in \in TickInputs :
            in.fail # "getBackup" => getBackup(crSpec, backup, in).bcp = backup
       /\ tick.pushed = PushOf([crSpec EXCEPT !.backupSource = "nil"], backup)

Called(fn) == call.fn = fn /\ back.done

\* C12 (as stated): getStorage called with no storage name and a backup source
\* that populates zero or more than one of S3, Azure, Filesystem returns an
\* error, and it returns a storage and no error when exactly one is populated
C12_VariantExclusivity ==
    (Called("getStorage") /\ call.storageName = "" /\ call.source.present)
    => /\ ~back.val.panic
       /\ Populated(call.source) # 1
            => back.val.err # Nil /\ back.val.stg = EmptyStorage
       /\ Populated(call.source) = 1 => back.val.err = Nil

\* a call of CreateOrUpdateConfig has just returned
Synced == sync.calls > 0 /\ sync.fresh

\* C13: a call of CreateOrUpdateConfig that directly follows a successful call
\* with the same cluster spec, storage spec and credentials attempts no create
\* and no update and leaves the secret's content, config-sum and
\* config-applied as they were
C13_SecondSyncWritesNothing ==
    (Synced /\ sync.prev.row /\ sync.prev.ok /\ sync.prev.args = sync.args)
    => sync.op = "none" /\ secret = sync.pre

\* a second call in a row with the same arguments, after a first that wrote
C13_Witness ==
    /\ Synced /\ sync.prev.row /\ sync.prev.ok /\ sync.prev.args = sync.args
    /\ sync.err = Nil /\ sync.api = "ok"
    /\ secret.exists /\ secret.data = Marshal(GenerateConfig(sync.args.cluster,
                                              sync.args.stg, sync.args.creds).cnf)

\* C14: after a successful update of an existing secret whose content differed
\* from the rendered bytes, the secret holds the new bytes, config-sum is
\* their hash and config-applied is absent; a created secret has no
\* config-applied either
C14_AppliedClearedOnChange ==
    (Synced /\ sync.err = Nil /\ sync.op \in {"create", "update"})
    => LET bytes == Marshal(GenerateConfig(sync.args.cluster, sync.args.stg,
                                           sync.args.creds).cnf)
       IN  /\ secret.exists
           /\ secret.data = bytes
           /\ secret.sum = Sha256(bytes)
           /\ ~secret.applied
           /\ sync.op = "update" => sync.pre.exists /\ sync.pre.data # bytes
           /\ sync.op = "create" => ~sync.pre.exists

\* an update that has just replaced the content of a secret marked applied
C14_Witness ==
    /\ Synced /\ sync.err = Nil /\ sync.op = "update"
    /\ sync.pre.applied /\ ~secret.applied /\ secret.data # sync.pre.data

\* C15 (as stated): GenerateConfig called with a storage of type S3, Azure or
\* Filesystem, the credentials available, returns no error and a configuration
\* whose storage block has the type of the storage and carries its fields
C15_VariantRendered ==
    (Called("GenerateConfig") /\ call.creds.err = Nil
        /\ call.stg.type \in {StorageS3, StorageAzure, StorageFilesystem})
    => /\ back.val.err = Nil
       /\ back.val.cnf.storage.type = call.stg.type
       /\ call.stg.type = StorageS3
            => back.val.cnf.storage.s3
                 = [set |-> TRUE, spec |-> call.stg.s3, key |-> call.creds.key]
       /\ call.stg.type = StorageAzure
            => back.val.cnf.storage.azure
                 = [set |-> TRUE, spec |-> call.stg.azure, key |-> call.creds.key]

\* C16: GenerateConfig called with a storage whose type has no case in its
\* switch (neither S3 nor Azure) returns no error and a configuration with an
\* empty storage block and the PITR block of the cluster
C16_UnsupportedRendersEmpty ==
    (Called("GenerateConfig") /\ call.stg.type \notin {StorageS3, StorageAzure})
    => /\ back.val.err = Nil
       /\ back.val.cnf.storage = EmptyStorageConf
       /\ back.val.cnf.pitr = call.cluster.pitr

\* a storage of an unknown type rendered for a cluster with PITR enabled
C16_Witness ==
    /\ Called("GenerateConfig") /\ call.stg.type = StorageUnknown
    /\ call.cluster.pitr /\ back.val.cnf.pitr
    /\ back.val.cnf.storage.type = ""

\* C17 (as stated): HasRunningOperation returns (false, nil) when GetStatus
\* fails with a text containing "no documents in result", returns the error
\* of any other failure, and on success returns whether Running.Status is
\* non-empty
C17_SentinelNoDocuments ==
    Called("HasRunningOperation")
    => LET e == call.st.err
           swallowed == Contains(e, <<"no documents in result">>)
       IN  /\ (e # Nil /\ swallowed) => back.val = [running |-> FALSE, err |-> Nil]
           /\ (e # Nil /\ ~swallowed) => back.val = [running |-> FALSE, err |-> e]
           /\ e = Nil
                => back.val = [running |-> call.st.running # "", err |-> Nil]

\* C17 (amended): the same with the sentinel "mongo: no documents in result"
C17_SentinelMongoNoDocuments ==
    Called("HasRunningOperation")
    => LET e == call.st.err
           swallowed == Contains(e, <<"mongo:", "no documents in result">>)
       IN  /\ (e # Nil /\ swallowed) => back.val = [running |-> FALSE, err |-> Nil]
           /\ (e # Nil /\ ~swallowed) => back.val = [running |-> FALSE, err |-> e]
           /\ e = Nil
                => back.val = [running |-> call.st.running # "", err |-> Nil]

\* the call on an agent with no stored configuration
C17_Witness ==
    /\ Called("HasRunningOperation") /\ call.st.err = ErrNoDocuments
    /\ back.val = [running |-> FALSE, err |-> Nil]

StatusPollers ==
    {"HasRunningOperation", "GetRunningOperation", "IsPITRRunning", "LatestPITRChunk"}

\* C18 (as stated): no helper built on GetStatus returns an error when
\* GetStatus fails because the agent has no stored configuration
C18_PollersSwallowNotConfigured ==
    (call.fn \in StatusPollers /\ back.done
        /\ Contains(call.st.err, <<"mongo:", "no documents in result">>))
    => back.val.err = Nil

\* the text of each end second of the model, from the civil calendar
CalendarText(e) ==
    CASE e = 0 -> "1970-01-01T00:00:00"
      [] e = 86399 -> "1970-01-01T23:59:59"
      [] e = 68256000 -> "1972-03-01T00:00:00"
      [] e = 951782400 -> "2000-02-29T00:00:00"
      [] e = 951868799 -> "2000-02-29T23:59:59"
      [] e = 1700000000 -> "2023-11-14T22:13:20"

\* C19: on a status with a non-empty chunk list LatestPITRChunk returns, with
\* no error, the 19 characters YYYY-MM-DDTHH:MM:SS of the UTC date and time
\* of the last chunk's end second, whatever the chunks before it are;
\* 1700000000 gives "2023-11-14T22:13:20"
C19_LatestChunkText ==
    (Called("LatestPITRChunk") /\ call.st.err = Nil /\ call.st.chunks # <<>>)
    => LET e == call.st.chunks[Len(call.st.chunks)]
       IN  /\ ~back.val.panic
           /\ back.val.err = Nil
           /\ Len(back.val.text) = 19
           /\ back.val.text = CalendarText(e)
           /\ e = 1700000000 => back.val.text = "2023-11-14T22:13:20"

\* a list whose last chunk ends at 1700000000 after a chunk that ends earlier
C19_Witness ==
    /\ Called("LatestPITRChunk") /\ call.st.err = Nil
    /\ call.st.chunks = <<86399, 1700000000>>
    /\ back.val.text = "2023-11-14T22:13:20"

\* C20 (as stated, on the ticks in which no step fails): a tick of an existing
\* request that ends with the stored state neither Ready nor Error returns
\* RequeueAfter 5 s, the ticks that wait for a backup not yet Ready included,
\* and a tick that starts with the state Ready or Error returns no requeue
C20_RequeuePolicy ==
    /\ (Ticked /\ exists /\ tick.failed = ""
            /\ ~IsTerminal(tick.pre.state) /\ ~IsTerminal(restore.state))
        => tick.res = rr
    /\ (Ticked /\ IsTerminal(tick.pre.state)) => tick.res = NoRequeue

C22_BoundedWait ==
    (backup.state \notin {BackupStateReady, BackupStateError})
        ~> IsTerminal(restore.state)

\* C23 (as stated): the gate points the agent at the config file of the named
\* storage whenever the request has a backup name, a backup source or not, and
\* pushes a synthesized storage configuration only when it has no backup name
C23_GateSourceByName ==
    (Ticked /\ "push" \in tick.steps)
    => /\ crSpec.backupName # ""
            => tick.pushed = [call |-> "SetConfigFile",
                              storageName |-> backup.storageName, type |-> ""]
       /\ crSpec.backupName = "" => tick.pushed.call = "SetStorageConfig"

\* C24 (as stated): the PBMIsConfigured condition is set only on a tick whose
\* push succeeded and at a moment when the configuration the agent has applied
\* is the one pushed; a tick whose push failed leaves the condition absent
\* and the state as it was
C24_ConditionOnlyWhenConverged ==
    pair.on
    => \A r \in Requests :
          LET q == pair.req[r]
          IN  /\ q.gate.set => q.gate.pushOk /\ q.gate.converged
              /\ (q.pc = "write" /\ ~q.stored.cond /\ ~q.gate.set)
                    => q.local = q.stored

\* C25 (as stated): a tick that does not find the request returns no error,
\* writes no status, runs no agent command and asks for no requeue
C25_DeletedRequestStops ==
    (tick.ran /\ ~tick.found /\ ~exists)
    => /\ tick.ret = Nil
       /\ tick.writes = 0
       /\ tick.steps \cap AgentSteps = {}
       /\ tick.res = NoRequeue

\* C26: whatever calls of CreateOrUpdateConfig have been made, succeeding or
\* failing, the config-sum of a stored secret is the SHA-256 of its
\* config.yaml, and a call that returns an error leaves the stored secret as it
\* was
C26_SumMatchesContent ==
    /\ secret.exists => secret.sum = Sha256(secret.data)
    /\ (Synced /\ sync.err # Nil) => secret = sync.pre

\* an update that replaced the content, right after a call that failed
C26_Witness ==
    /\ Synced /\ sync.op = "update" /\ sync.err = Nil
    /\ sync.prev.row /\ ~sync.prev.ok
    /\ secret.data # sync.pre.data /\ secret.sum = Sha256(secret.data)

\* C27 (as stated): when a request's restore is issued, the configuration the
\* agent holds is the one pushed for that request's backup
C27_ConfigMatchesAtDispatch ==
    pair.on
    => \A r \in Requests :
          pair.req[r].disp.done
            => pair.req[r].disp.config = PushOf(PairSpec(r), PairBackup(r))

ConditionWriteFailed ==
    /\ Ticked /\ tick.writes = 1
    /\ tick.status.cond /\ ~tick.pre.cond
    /\ tick.w.err # Nil

\* the next tick goes through the gate again: it issues no restore command
\* and no status query, and pushes the configuration unless a step before
\* the push fails
RepeatsGate ==
    /\ tick'.steps \cap {"fetchStatus", "restore"} = {}
    /\ tick'.failed \notin {"getCluster", "getPod"} => "push" \in tick'.steps

\* C29 (as stated): with ticks that keep coming and in which every call and
\* the status write succeed, a New request whose backup is Ready eventually
\* has the PBMIsConfigured condition stored; and after a tick whose write of
\* the condition failed, the next tick repeats the configuration push and
\* does not dispatch
C29_GateProgress ==
    /\ (backup.state = BackupStateReady) ~> restore.cond
    /\ [][ConditionWriteFailed => RepeatsGate]_vars

\* C29 (amended): the same progress; the next tick repeats the push when no
\* attempt of the failed write reached the store, and skips the gate when one
\* did
C29_GateProgressStored ==
    /\ (backup.state = BackupStateReady) ~> restore.cond
    /\ [][(ConditionWriteFailed /\ ~tick.w.wrote) => RepeatsGate]_vars
    /\ [][(ConditionWriteFailed /\ tick.w.wrote)
            => tick'.steps \cap {"getCluster", "getPod", "push"} = {}]_vars

\* the condition is stored by a tick that pushed the configuration
C29_Witness ==
    /\ Ticked /\ "push" \in tick.steps /\ tick.writes = 1
    /\ ~tick.pre.cond /\ tick.w.wrote /\ tick.w.err = Nil
    /\ restore.cond /\ restore.state = RestoreStateNew
    /\ backup.state = BackupStateReady

====
